---------------------------- MODULE Spec2Model ----------------------------
(***************************************************************************)
(* Green AI Solar dashboard: the local efficiency estimator                *)
(* (services/api.js), the two projection generators and the App           *)
(* component's prediction gateway (App.jsx).                               *)
(*                                                                         *)
(* Numbers.  The source computes in IEEE doubles; the model computes the   *)
(* same expressions exactly, in fixed point:                               *)
(*   - an efficiency (a fraction 0..1) is an integer number of 1/700000,   *)
(*     the common denominator of the estimator's coefficients              *)
(*     (0.35/1000, 0.15/1000, 0.08/35, 0.03/100, 0.02/100);                *)
(*   - soiling_ratio is an integer number of thousandths (0.85 = 850);     *)
(*   - the other parameters are integers in their own unit;                *)
(*   - a value the source rounds to one decimal is an integer number of    *)
(*     tenths (54.1 % = 541).                                              *)
(* The exact value and the double agree except where the exact value lies  *)
(* halfway between two tenths (or on a threshold): there the double may    *)
(* fall on either side, and the model rounds the exact value half up, as   *)
(* Math.round does.                                                        *)
(* A parameter vector carries the six keys the estimator reads and         *)
(* maintenance_count, which the maintenance generator overwrites; the      *)
(* keys no local code reads (module_temperature, wind_speed, voltage,      *)
(* current, pressure) are left out.                                        *)
(***************************************************************************)
EXTENDS Integers, Sequences, FiniteSets, TLC

VARIABLES
    \* ---- the App component (App.jsx:642-710)
    inputs,           \* useState inputs: the current parameter vector
    prediction,       \* useState prediction
    isLoading,        \* useState isLoading
    apiStatus,        \* useState apiStatus: "checking" | "connected" | "disconnected"
    error,            \* useState error: null, or [message |-> err.message]
    evolutionData,    \* useState evolutionData
    maintenanceData,  \* useState maintenanceData
    mounted,          \* the mount effects have run
    effectDue,        \* the [inputs] effect is scheduled and has not run yet
    health,           \* checkApi: "idle" | "pending" | "resolved" | "rejected"
    calls,            \* handlePredict invocations suspended at their await
    last,             \* the handlePredict invocation that resumed most recently
    nPredicts,        \* number of handlePredict invocations so far
    nEdits,           \* number of updateInput calls so far
    \* ---- a direct call of one of the module-level functions
    fn,               \* "none" | "predict" | "evolution" | "comparison"
    fnArg,            \* the parameter vector passed
    fnYears,          \* the maxYears passed to generateYearlyEvolution
    fnRet             \* the value returned

appVars == <<inputs, prediction, isLoading, apiStatus, error, evolutionData,
             maintenanceData, mounted, effectDue, health, calls, last,
             nPredicts, nEdits>>
fnVars == <<fn, fnArg, fnYears, fnRet>>
vars == <<appVars, fnVars>>

----------------------------------------------------------------------------
(* Fixed point helpers                                                     *)

\* 1.0 as an efficiency: 700000 = lcm of the coefficient denominators.
One == 7 * 100000

Max(a, b) == IF a >= b THEN a ELSE b
Min(a, b) == IF a <= b THEN a ELSE b

\* Math.round(n / d) for d > 0: the nearest integer, a half rounds up.
MathRound(n, d) == (2 * n + d) \div (2 * d)

\* JavaScript null
null == [null |-> TRUE]

----------------------------------------------------------------------------
(* services/api.js: the local estimator                                    *)

\* Mutant of getQualityLabel: the second threshold at 0.6 instead of 0.5.
getQualityLabelShifted(efficiency) ==
    IF 10 * efficiency < 3 * One THEN "Faible"
    ELSE IF 10 * efficiency < 6 * One THEN "Moderee"
    ELSE IF 10 * efficiency < 7 * One THEN "Bonne"
    ELSE "Excellente"

getQualityLabel(efficiency) ==
    IF 10 * efficiency < 3 * One THEN "Faible"
    ELSE IF 10 * efficiency < 5 * One THEN "Moderee"
    ELSE IF 10 * efficiency < 7 * One THEN "Bonne"
    ELSE "Excellente"

\* Mutant of efficiencySum: the panel-age term added instead of subtracted.
efficiencySumAgeAdded(p) ==
    210000
    + p.irradiance * 245
    + p.soiling_ratio * 105
    + p.panel_age * 1600
    - (IF p.temperature > 25 THEN (p.temperature - 25) * 210 ELSE 0)
    - p.humidity * 140
    - p.cloud_coverage * 140

\* The sum of api.js:74-91, before the clamp.
\*   0.3                      = 210000 / 700000
\*   irradiance / 1000 * 0.35 = irradiance * 245 / 700000
\*   soiling_ratio * 0.15     = thousandths * 105 / 700000
\*   panel_age / 35 * 0.08    = panel_age * 1600 / 700000
\*   (t - 25) / 100 * 0.03    = (t - 25) * 210 / 700000
\*   x / 100 * 0.02           = x * 140 / 700000
efficiencySum(p) ==
    210000
    + p.irradiance * 245
    + p.soiling_ratio * 105
    - p.panel_age * 1600
    - (IF p.temperature > 25 THEN (p.temperature - 25) * 210 ELSE 0)
    - p.humidity * 140
    - p.cloud_coverage * 140

\* Mutant of clamp: the lower bound forgotten.
clampNoFloor(efficiency) == Min(595000, efficiency)

\* Math.max(0.1, Math.min(0.85, efficiency))
clamp(efficiency) == Max(70000, Min(595000, efficiency))

predict(p) ==
    LET efficiency == clamp(efficiencySum(p))
    IN  [efficiency         |-> efficiency,
         efficiency_percent |-> efficiency * 100,
         quality_label      |-> getQualityLabel(efficiency),
         confidence         |-> "simulated"]

----------------------------------------------------------------------------
(* App.jsx: generateYearlyEvolution                                        *)

panelPower == 400
sunHoursPerYear == 1500
DefaultMaxYears == 35

\* Mutant of yearlyRecord: the loss taken from the unrounded efficiency of
\* year 0 instead of the rounded field data[0].efficiency.
yearlyRecordExactInitial(baseInputs, year, data) ==
    LET p       == [baseInputs EXCEPT !.panel_age = year]
        e       == predict(p).efficiency
        initial == predict([baseInputs EXCEPT !.panel_age = 0]).efficiency
    IN  [year        |-> year,
         efficiency  |-> MathRound(e, 700),
         production  |-> MathRound(((panelPower * sunHoursPerYear) \div 1000) * e, One),
         degradation |-> MathRound((initial - e) * 1000, initial),
         status      |-> IF e >= 60 * 7000 THEN "Bon"
                         ELSE IF e >= 45 * 7000 THEN "Acceptable"
                         ELSE "A remplacer"]

\* Mutant of yearlyRecord: the status taken from the rounded efficiency.
yearlyRecordStatusOfField(baseInputs, year, data) ==
    LET p       == [baseInputs EXCEPT !.panel_age = year]
        e       == predict(p).efficiency
        initial == IF year = 0 THEN e ELSE 700 * data[1].efficiency
    IN  [year        |-> year,
         efficiency  |-> MathRound(e, 700),
         production  |-> MathRound(((panelPower * sunHoursPerYear) \div 1000) * e, One),
         degradation |-> MathRound((initial - e) * 1000, initial),
         status      |-> IF MathRound(e, 700) >= 600 THEN "Bon"
                         ELSE IF MathRound(e, 700) >= 450 THEN "Acceptable"
                         ELSE "A remplacer"]

\* One pass of the loop body for `year`, given the records pushed so far.
\* `efficiency` of the source is result.efficiency * 100, i.e. e / 7000
\* percent.  initialEfficiency is that same value at year 0 and the ROUNDED
\* field data[0].efficiency afterwards; `initial` holds it in the unit of e
\* (one tenth of a percent = 700).
\* annualProduction = panelPower * sunHoursPerYear * e / (1000 * 700000).
yearlyRecord(baseInputs, year, data) ==
    LET p       == [baseInputs EXCEPT !.panel_age = year]
        e       == predict(p).efficiency
        initial == IF year = 0 THEN e ELSE 700 * data[1].efficiency
    IN  [year        |-> year,
         efficiency  |-> MathRound(e, 700),
         production  |-> MathRound(((panelPower * sunHoursPerYear) \div 1000) * e, One),
         \* Math.round((initial - e) / initial * 100 * 10)
         degradation |-> MathRound((initial - e) * 1000, initial),
         status      |-> IF e >= 60 * 7000 THEN "Bon"
                         ELSE IF e >= 45 * 7000 THEN "Acceptable"
                         ELSE "A remplacer"]

\* Mutant of generateYearlyEvolution: `year < maxYears`, the last year dropped.
generateYearlyEvolutionExclusive(baseInputs, maxYears) ==
    LET first == yearlyRecord(baseInputs, 0, <<>>)
    IN  [i \in 1 .. maxYears |->
            IF i = 1 THEN first ELSE yearlyRecord(baseInputs, i - 1, <<first>>)]

\* for (year = 0; year <= maxYears; year++) data.push(...): record i of the
\* result is the record of year i - 1.  The loop body reads nothing of
\* `data` but data[0], so each later year is given the first record alone.
generateYearlyEvolution(baseInputs, maxYears) ==
    LET first == yearlyRecord(baseInputs, 0, <<>>)
    IN  [i \in 1 .. (maxYears + 1) |->
            IF i = 1 THEN first ELSE yearlyRecord(baseInputs, i - 1, <<first>>)]

----------------------------------------------------------------------------
(* App.jsx: generateMaintenanceComparison                                  *)

\* Mutant of scenarios: the regular scenario given the bonus of the minimal
\* one.
scenariosWeakRegular == <<
    [name |-> "Sans entretien",     soilingDecay |-> 15, maintenanceBonus |-> 0],
    [name |-> "Entretien minimal",  soilingDecay |-> 8,  maintenanceBonus |-> 2],
    [name |-> "Entretien regulier", soilingDecay |-> 3,  maintenanceBonus |-> 2],
    [name |-> "Entretien optimal",  soilingDecay |-> 0,  maintenanceBonus |-> 8] >>

\* soilingDecay and maintenanceBonus in thousandths per year.
scenarios == <<
    [name |-> "Sans entretien",     soilingDecay |-> 15, maintenanceBonus |-> 0],
    [name |-> "Entretien minimal",  soilingDecay |-> 8,  maintenanceBonus |-> 2],
    [name |-> "Entretien regulier", soilingDecay |-> 3,  maintenanceBonus |-> 5],
    [name |-> "Entretien optimal",  soilingDecay |-> 0,  maintenanceBonus |-> 8] >>

scenarioNames == {scenarios[i].name : i \in DOMAIN scenarios}
scenarioOf(n) == CHOOSE s \in {scenarios[i] : i \in DOMAIN scenarios} : s.name = n

years == <<0, 5, 10, 15, 20, 25, 30>>

\* Mutant of initialInputs: the soiling ratio of the base vector kept.
initialInputsOwnSoiling(baseInputs) ==
    [baseInputs EXCEPT !.panel_age = 0, !.maintenance_count = 0]

initialInputs(baseInputs) ==
    [baseInputs EXCEPT !.panel_age = 0, !.soiling_ratio = 850,
                       !.maintenance_count = 0]

\* Mutant of scenarioValue: the cap at the initial efficiency left out.
scenarioValueUncapped(baseInputs, scenario, year) ==
    LET soilingAfterYears == Max(400, 850 - scenario.soilingDecay * year)
        p          == [baseInputs EXCEPT !.panel_age = year,
                                         !.soiling_ratio = soilingAfterYears,
                                         !.maintenance_count = Min(year, 10)]
        result     == predict(p)
    IN  MathRound(result.efficiency + scenario.maintenanceBonus * 700 * year, 700)

\* Mutant of scenarioValue: the maintenance bonus subtracted.
scenarioValueBonusSubtracted(baseInputs, scenario, year) ==
    LET soilingAfterYears == Max(400, 850 - scenario.soilingDecay * year)
        p          == [baseInputs EXCEPT !.panel_age = year,
                                         !.soiling_ratio = soilingAfterYears,
                                         !.maintenance_count = Min(year, 10)]
        result     == predict(p)
        withBonus  == result.efficiency - scenario.maintenanceBonus * 700 * year
        efficiency == Min(withBonus, predict(initialInputs(baseInputs)).efficiency)
    IN  MathRound(efficiency, 700)

\* Mutant of scenarioValue: the years added to the age of the base vector.
scenarioValueAgeAdded(baseInputs, scenario, year) ==
    LET soilingAfterYears == Max(400, 850 - scenario.soilingDecay * year)
        p          == [baseInputs EXCEPT !.panel_age = baseInputs.panel_age + year,
                                         !.soiling_ratio = soilingAfterYears,
                                         !.maintenance_count = Min(year, 10)]
        result     == predict(p)
        withBonus  == result.efficiency + scenario.maintenanceBonus * 700 * year
        efficiency == Min(withBonus, predict(initialInputs(baseInputs)).efficiency)
    IN  MathRound(efficiency, 700)

\* The value of one scenario at one year > 0, in tenths of a percent.
scenarioValue(baseInputs, scenario, year) ==
    LET soilingAfterYears == Max(400, 850 - scenario.soilingDecay * year)
        p          == [baseInputs EXCEPT !.panel_age = year,
                                         !.soiling_ratio = soilingAfterYears,
                                         !.maintenance_count = Min(year, 10)]
        result     == predict(p)
        \* 0.001 = 700 / 700000
        withBonus  == result.efficiency + scenario.maintenanceBonus * 700 * year
        efficiency == Min(withBonus, predict(initialInputs(baseInputs)).efficiency)
    IN  MathRound(efficiency, 700)

dataPoint(baseInputs, year) ==
    LET initialResult     == predict(initialInputs(baseInputs))
        initialEfficiency == MathRound(initialResult.efficiency, 700)
    IN  [year   |-> year,
         values |-> [n \in scenarioNames |->
                        IF year = 0 THEN initialEfficiency
                        ELSE scenarioValue(baseInputs, scenarioOf(n), year)]]

generateMaintenanceComparison(baseInputs) ==
    [i \in DOMAIN years |-> dataPoint(baseInputs, years[i])]

----------------------------------------------------------------------------
(* Direct calls of the three functions, with arguments inside and outside  *)
(* the sliders' ranges.                                                    *)

MaxYearsArg == 3

IrradianceArgs   == {-1000, 0, 500, 1200}
SoilingArgs      == {0, 300, 700, 1000}
PanelAgeArgs     == {0, 10, 35, 200}
TemperatureArgs  == {-10, 25, 50}
HumidityArgs     == {0, 50, 300}
CloudArgs        == {30, 100}
MaintenanceArgs  == {3}

Vectors ==
    [irradiance: IrradianceArgs, soiling_ratio: SoilingArgs,
     panel_age: PanelAgeArgs, temperature: TemperatureArgs,
     humidity: HumidityArgs, cloud_coverage: CloudArgs,
     maintenance_count: MaintenanceArgs]

\* The ranges FEATURES_CONFIG declares for the keys the estimator reads
\* (soiling_ratio in thousandths).
FeatureRanges ==
    [irradiance     |-> 0 .. 1200,
     soiling_ratio  |-> 300 .. 1000,
     panel_age      |-> 0 .. 35,
     temperature    |-> -10 .. 50,
     humidity       |-> 0 .. 100,
     cloud_coverage |-> 0 .. 100]

inRange(p) == \A k \in DOMAIN FeatureRanges : p[k] \in FeatureRanges[k]

YearsArgs == (0 .. MaxYearsArg) \cup {DefaultMaxYears}

defaultInputs ==
    [irradiance |-> 500, soiling_ratio |-> 700, panel_age |-> 10,
     temperature |-> 25, humidity |-> 50, cloud_coverage |-> 30,
     maintenance_count |-> 3]

----------------------------------------------------------------------------
(* services/api.js: the remote service as the App sees it                  *)

MaxPredicts == 3
MaxEdits == 2

\* What axios hands to the response interceptor's error branch: a response
\* with a non-2xx status (its body may carry a `detail`), a request that got
\* no response (network error, or the 30 s timeout of api.js:23), or a
\* request that could not be set up.
AxiosErrors ==
    { [response |-> TRUE,  request |-> TRUE,  detail |-> "Invalid input"],
      [response |-> TRUE,  request |-> TRUE,  detail |-> ""],
      [response |-> FALSE, request |-> TRUE,  detail |-> ""],
      [response |-> FALSE, request |-> FALSE, detail |-> ""] }

\* api.interceptors.response, error branch: the message of the Error thrown.
\* `detail || 'Erreur serveur'`: an absent or empty detail gives the default.
interceptorMessage(err) ==
    IF err.response
    THEN (IF err.detail # "" THEN err.detail ELSE "Erreur serveur")
    ELSE IF err.request
    THEN "Le serveur ne repond pas. Il se reveille peut-etre (30s max)..."
    ELSE "Erreur de configuration de la requete"

\* Bodies a 2xx answer of POST /predict can carry.  The service is outside
\* the repository: it may answer as documented (an efficiency and its own
\* confidence tag), with an object that has no efficiency, or with null.
RemoteEfficiencies == {One \div 2, (9 * One) \div 10}

wellFormedBody(e) ==
    [efficiency         |-> e,
     efficiency_percent |-> e * 100,
     quality_label      |-> getQualityLabel(e),
     confidence         |-> "model"]

malformedBody == [status |-> "ok"]

RemoteBodies ==
    {wellFormedBody(e) : e \in RemoteEfficiencies} \cup {malformedBody, null}

\* typeof x.efficiency === 'number'
hasEfficiency(x) == "efficiency" \in DOMAIN x

----------------------------------------------------------------------------
(* App.jsx: the App component                                              *)

\* Mutant of FEATURE_IMPORTANCE: the first value raised so that the six add
\* up to one.
FEATURE_IMPORTANCE_Normalised ==
    << [name |-> "Irradiance",   value |-> 674],
       [name |-> "Proprete",     value |-> 229],
       [name |-> "Age panneau",  value |-> 78],
       [name |-> "Humidite",     value |-> 11],
       [name |-> "Temp. module", value |-> 5],
       [name |-> "Temperature",  value |-> 3] >>

\* The static table the importance chart draws; values in thousandths.
FEATURE_IMPORTANCE ==
    << [name |-> "Irradiance",   value |-> 669],
       [name |-> "Proprete",     value |-> 229],
       [name |-> "Age panneau",  value |-> 78],
       [name |-> "Humidite",     value |-> 11],
       [name |-> "Temp. module", value |-> 5],
       [name |-> "Temperature",  value |-> 3] >>

\* The sum of the values of the table, in thousandths.
importanceSum ==
    LET partial[i \in 0 .. Len(FEATURE_IMPORTANCE)] ==
            IF i = 0 THEN 0 ELSE partial[i - 1] + FEATURE_IMPORTANCE[i].value
    IN  partial[Len(FEATURE_IMPORTANCE)]

\* The sliders that are moved, and the values they are moved to (all within
\* the range FEATURES_CONFIG declares).
SliderValues ==
    [irradiance     |-> {500, 1200},
     soiling_ratio  |-> {700, 1000},
     panel_age      |-> {10, 35},
     temperature    |-> {25, 50}]

AppInit ==
    /\ inputs = defaultInputs
    /\ prediction = null
    /\ isLoading = FALSE
    /\ apiStatus = "checking"
    /\ error = null
    /\ evolutionData = <<>>
    /\ maintenanceData = <<>>
    /\ mounted = FALSE
    /\ effectDue = FALSE
    /\ health = "idle"
    /\ calls = {}
    /\ last = null
    /\ nPredicts = 0
    /\ nEdits = 0

\* handlePredict up to its await (App.jsx:683-691).  The callback closes
\* over the inputs and the apiStatus of the render it was created in; the
\* suspended invocation keeps both.  `edits` notes how many edits had been
\* made when it started, and `last.edits` how many when it resumed.
handlePredictStart ==
    /\ isLoading' = TRUE
    /\ error' = null
    /\ nPredicts' = nPredicts + 1
    /\ calls' = calls \cup {[id        |-> nPredicts + 1,
                             inputs    |-> inputs,
                             apiStatus |-> apiStatus,
                             remote    |-> apiStatus = "connected",
                             edits     |-> nEdits]}

\* The three mount effects, in source order: checkApi() issues GET /health,
\* the [inputs] effect derives both sequences, handlePredict() is called.
Mount ==
    /\ ~mounted
    /\ mounted' = TRUE
    /\ health' = "pending"
    /\ evolutionData' = generateYearlyEvolution(inputs, DefaultMaxYears)
    /\ maintenanceData' = generateMaintenanceComparison(inputs)
    /\ handlePredictStart
    /\ UNCHANGED <<inputs, prediction, apiStatus, effectDue, last, nEdits, fnVars>>

\* Mutant of HealthCheckOk: a predict call issued to the remote service as
\* soon as the health check has succeeded.
HealthCheckOkPredictsAgain ==
    /\ health = "pending"
    /\ health' = "resolved"
    /\ apiStatus' = "connected"
    /\ isLoading' = TRUE
    /\ error' = null
    /\ nPredicts' = nPredicts + 1
    /\ calls' = calls \cup {[id        |-> nPredicts + 1,
                             inputs    |-> inputs,
                             apiStatus |-> "connected",
                             remote    |-> TRUE,
                             edits     |-> nEdits]}
    /\ UNCHANGED <<inputs, prediction, evolutionData, maintenanceData,
                   mounted, effectDue, last, nEdits, fnVars>>

\* checkApi resumes after `await solarApi.healthCheck()`.
HealthCheckOk ==
    /\ health = "pending"
    /\ health' = "resolved"
    /\ apiStatus' = "connected"
    /\ UNCHANGED <<inputs, prediction, isLoading, error, evolutionData,
                   maintenanceData, mounted, effectDue, calls, last,
                   nPredicts, nEdits, fnVars>>

\* checkApi's catch: the health request failed, for whatever reason.
HealthCheckFails ==
    /\ health = "pending"
    /\ health' = "rejected"
    /\ apiStatus' = "disconnected"
    /\ UNCHANGED <<inputs, prediction, isLoading, error, evolutionData,
                   maintenanceData, mounted, effectDue, calls, last,
                   nPredicts, nEdits, fnVars>>

\* Mutant of ClickPredict: every predict first issues a new health check.
ClickPredictRechecks ==
    /\ mounted
    /\ ~isLoading
    /\ nPredicts < MaxPredicts
    /\ health' = "pending"
    /\ handlePredictStart
    /\ UNCHANGED <<inputs, prediction, apiStatus, evolutionData, maintenanceData,
                   mounted, effectDue, last, nEdits, fnVars>>

\* Mutant of ClickPredict: the button is not disabled while isLoading.
ClickPredictWhileLoading ==
    /\ mounted
    /\ nPredicts < MaxPredicts
    /\ handlePredictStart
    /\ UNCHANGED <<inputs, prediction, apiStatus, evolutionData, maintenanceData,
                   mounted, effectDue, health, last, nEdits, fnVars>>

\* The predict button (disabled while isLoading).
ClickPredict ==
    /\ mounted
    /\ ~isLoading
    /\ nPredicts < MaxPredicts
    /\ handlePredictStart
    /\ UNCHANGED <<inputs, prediction, apiStatus, evolutionData, maintenanceData,
                   mounted, effectDue, health, last, nEdits, fnVars>>

\* Mutant of updateInput: the effect does not depend on `inputs`, so an edit
\* schedules no recomputation.
updateInputNoEffect(key, value) ==
    /\ mounted
    /\ nEdits < MaxEdits
    /\ value # inputs[key]
    /\ inputs' = [inputs EXCEPT ![key] = value]
    /\ nEdits' = nEdits + 1
    /\ UNCHANGED <<prediction, isLoading, apiStatus, error, evolutionData,
                   maintenanceData, mounted, effectDue, health, calls, last,
                   nPredicts, fnVars>>

\* updateInput(key, value), from a slider's onChange.
updateInput(key, value) ==
    /\ mounted
    /\ nEdits < MaxEdits
    /\ value # inputs[key]
    /\ inputs' = [inputs EXCEPT ![key] = value]
    /\ effectDue' = TRUE
    /\ nEdits' = nEdits + 1
    /\ UNCHANGED <<prediction, isLoading, apiStatus, error, evolutionData,
                   maintenanceData, mounted, health, calls, last, nPredicts,
                   fnVars>>

\* The [inputs] effect after an edit: both sequences replaced as wholes.
EvolutionEffect ==
    /\ effectDue
    /\ effectDue' = FALSE
    /\ evolutionData' = generateYearlyEvolution(inputs, DefaultMaxYears)
    /\ maintenanceData' = generateMaintenanceComparison(inputs)
    /\ UNCHANGED <<inputs, prediction, isLoading, apiStatus, error, mounted,
                   health, calls, last, nPredicts, nEdits, fnVars>>

\* Mutant of LocalResolve: the estimate taken from the inputs current when
\* the timer fires instead of the inputs the callback closed over.
LocalResolveCurrentInputs(c) ==
    /\ c \in calls
    /\ ~c.remote
    /\ prediction' = predict(inputs)
    /\ isLoading' = FALSE
    /\ calls' = calls \ {c}
    /\ last' = [call |-> c, outcome |-> "local", body |-> null, message |-> "",
                edits |-> nEdits]
    /\ UNCHANGED <<inputs, apiStatus, error, evolutionData, maintenanceData,
                   mounted, effectDue, health, nPredicts, nEdits, fnVars>>

\* Local branch: the 500 ms timer fires, then lines 692-694 and the finally.
LocalResolve(c) ==
    /\ c \in calls
    /\ ~c.remote
    /\ prediction' = predict(c.inputs)
    /\ isLoading' = FALSE
    /\ calls' = calls \ {c}
    /\ last' = [call |-> c, outcome |-> "local", body |-> null, message |-> "",
                edits |-> nEdits]
    /\ UNCHANGED <<inputs, apiStatus, error, evolutionData, maintenanceData,
                   mounted, effectDue, health, nPredicts, nEdits, fnVars>>

\* Remote branch, 2xx: solarApi.predict returns response.data, which line 694
\* stores as it is.
RemoteSuccess(c, body) ==
    /\ c \in calls
    /\ c.remote
    /\ prediction' = body
    /\ isLoading' = FALSE
    /\ calls' = calls \ {c}
    /\ last' = [call |-> c, outcome |-> "success", body |-> body, message |-> "",
                edits |-> nEdits]
    /\ UNCHANGED <<inputs, apiStatus, error, evolutionData, maintenanceData,
                   mounted, effectDue, health, nPredicts, nEdits, fnVars>>

\* Mutant of RemoteFailure: the fallback estimate taken from the inputs
\* current when the request is rejected.
RemoteFailureCurrentInputs(c, err) ==
    /\ c \in calls
    /\ c.remote
    /\ error' = [message |-> interceptorMessage(err)]
    /\ prediction' = predict(inputs)
    /\ isLoading' = FALSE
    /\ calls' = calls \ {c}
    /\ last' = [call |-> c, outcome |-> "failure", body |-> null,
                message |-> interceptorMessage(err), edits |-> nEdits]
    /\ UNCHANGED <<inputs, apiStatus, evolutionData, maintenanceData,
                   mounted, effectDue, health, nPredicts, nEdits, fnVars>>

\* Mutant of RemoteFailure: a failed call switches the gateway to local mode.
RemoteFailureGoesLocal(c, err) ==
    /\ c \in calls
    /\ c.remote
    /\ error' = [message |-> interceptorMessage(err)]
    /\ prediction' = predict(c.inputs)
    /\ isLoading' = FALSE
    /\ apiStatus' = "disconnected"
    /\ calls' = calls \ {c}
    /\ last' = [call |-> c, outcome |-> "failure", body |-> null,
                message |-> interceptorMessage(err), edits |-> nEdits]
    /\ UNCHANGED <<inputs, evolutionData, maintenanceData,
                   mounted, effectDue, health, nPredicts, nEdits, fnVars>>

\* Remote branch, rejected: the interceptor's Error reaches the catch of
\* lines 695-698.
RemoteFailure(c, err) ==
    /\ c \in calls
    /\ c.remote
    /\ error' = [message |-> interceptorMessage(err)]
    /\ prediction' = predict(c.inputs)
    /\ isLoading' = FALSE
    /\ calls' = calls \ {c}
    /\ last' = [call |-> c, outcome |-> "failure", body |-> null,
                message |-> interceptorMessage(err), edits |-> nEdits]
    /\ UNCHANGED <<inputs, apiStatus, evolutionData, maintenanceData,
                   mounted, effectDue, health, nPredicts, nEdits, fnVars>>

Init ==
    /\ AppInit
    /\ fn = "none"
    /\ fnArg = defaultInputs
    /\ fnYears = 0
    /\ fnRet = null

Edit == \E key \in DOMAIN SliderValues : \E value \in SliderValues[key] :
            updateInput(key, value)
TimerFires == \E c \in calls : LocalResolve(c)
RemoteAnswers == \E c \in calls : \E body \in RemoteBodies : RemoteSuccess(c, body)
RemoteRejects == \E c \in calls : \E err \in AxiosErrors : RemoteFailure(c, err)

Next ==
    \/ Mount
    \/ HealthCheckOk
    \/ HealthCheckFails
    \/ ClickPredict
    \/ Edit
    \/ EvolutionEffect
    \/ TimerFires
    \/ RemoteAnswers
    \/ RemoteRejects

Spec == Init /\ [][Next]_vars

\* The callbacks a predict call waits for do run: the mount effects, the
\* 500 ms timer, and the settling of every axios request, by an answer or by
\* the 30 s timeout.  Nothing obliges the user to click or to move a slider.
FairSpec ==
    /\ Spec
    /\ WF_vars(Mount)
    /\ WF_vars(TimerFires)
    /\ WF_vars(RemoteAnswers \/ RemoteRejects)
    /\ WF_vars(HealthCheckOk \/ HealthCheckFails)

FnInit ==
    /\ AppInit
    /\ fn = "none"
    /\ fnArg \in Vectors
    /\ fnYears = 0
    /\ fnRet = null

CallPredict ==
    /\ fn = "none"
    /\ fn' = "predict"
    /\ fnRet' = predict(fnArg)
    /\ UNCHANGED <<appVars, fnArg, fnYears>>

CallEvolution ==
    /\ fn = "none"
    /\ \E maxYears \in YearsArgs :
          /\ fnYears' = maxYears
          /\ fnRet' = generateYearlyEvolution(fnArg, maxYears)
    /\ fn' = "evolution"
    /\ UNCHANGED <<appVars, fnArg>>

CallComparison ==
    /\ fn = "none"
    /\ fn' = "comparison"
    /\ fnRet' = generateMaintenanceComparison(fnArg)
    /\ UNCHANGED <<appVars, fnArg, fnYears>>

FnNext == CallPredict \/ CallEvolution \/ CallComparison

FnSpec == FnInit /\ [][FnNext]_vars

----------------------------------------------------------------------------
(* Properties of the three functions (checked under FnSpec)                *)

\* C1: whatever finite numbers the vector holds, inside or outside the
\* declared ranges, predict returns an efficiency between 0.10 and 0.85.
C1_EfficiencyInRange ==
    fn = "predict" =>
        /\ fnRet.efficiency >= One \div 10
        /\ 100 * fnRet.efficiency <= 85 * One

\* C1 witness: predict was called on a vector outside the declared ranges
\* whose unclamped sum is below 0.10, and on return the floor applies.
C1_Witness ==
    /\ fn = "predict"
    /\ fnArg.irradiance < 0
    /\ efficiencySum(fnArg) < One \div 10
    /\ fnRet.efficiency = One \div 10

\* C2: between two vectors that differ in one key only, a larger irradiance
\* never gives a smaller efficiency, a larger panel_age never a larger one,
\* a larger soiling_ratio never a smaller one.
C2_Monotone ==
    fn = "predict" =>
        /\ \A v \in IrradianceArgs : v > fnArg.irradiance =>
              predict([fnArg EXCEPT !.irradiance = v]).efficiency >= fnRet.efficiency
        /\ \A v \in PanelAgeArgs : v > fnArg.panel_age =>
              predict([fnArg EXCEPT !.panel_age = v]).efficiency <= fnRet.efficiency
        /\ \A v \in SoilingArgs : v > fnArg.soiling_ratio =>
              predict([fnArg EXCEPT !.soiling_ratio = v]).efficiency >= fnRet.efficiency

\* C2 witness: a vector for which each of the three keys, raised alone,
\* changes the returned efficiency strictly.
C2_Witness ==
    /\ fn = "predict"
    /\ \E v \in IrradianceArgs :
          /\ v > fnArg.irradiance
          /\ predict([fnArg EXCEPT !.irradiance = v]).efficiency > fnRet.efficiency
    /\ \E v \in PanelAgeArgs :
          /\ v > fnArg.panel_age
          /\ predict([fnArg EXCEPT !.panel_age = v]).efficiency < fnRet.efficiency
    /\ \E v \in SoilingArgs :
          /\ v > fnArg.soiling_ratio
          /\ predict([fnArg EXCEPT !.soiling_ratio = v]).efficiency > fnRet.efficiency

\* C3: generateYearlyEvolution(base, maxYears) returns maxYears + 1 records,
\* their year fields are 0, 1, ..., maxYears in this order, and the record
\* of year 0 has degradation 0.
C3_EvolutionShape ==
    fn = "evolution" =>
        /\ Len(fnRet) = fnYears + 1
        /\ \A i \in 1 .. Len(fnRet) : fnRet[i].year = i - 1
        /\ fnRet[1].degradation = 0

\* C3 witness: the default horizon of 35 years, 36 records, with a last
\* record that has degraded.
C3_Witness ==
    /\ fn = "evolution"
    /\ fnYears = DefaultMaxYears
    /\ Len(fnRet) = DefaultMaxYears + 1
    /\ fnRet[Len(fnRet)].degradation > 0

\* C4: in the year-0 point of generateMaintenanceComparison the four
\* scenario values all equal the reference efficiency (panel_age 0,
\* soiling_ratio 0.85, maintenance_count 0) rounded to one decimal.
C4_YearZeroEqual ==
    fn = "comparison" =>
        /\ fnRet[1].year = 0
        /\ \A n \in scenarioNames :
              fnRet[1].values[n] =
                  MathRound(predict([fnArg EXCEPT !.panel_age = 0,
                                                  !.soiling_ratio = 850,
                                                  !.maintenance_count = 0]).efficiency,
                            700)

\* C4 witness: a base vector whose own panel_age and soiling_ratio differ
\* from the reference's, and whose scenarios do differ at year 30.
C4_Witness ==
    /\ fn = "comparison"
    /\ fnArg.panel_age # 0
    /\ fnArg.soiling_ratio # 850
    /\ fnRet[7].values["Sans entretien"] < fnRet[7].values["Entretien optimal"]

\* C5: at every sampled year and for every scenario the value is at most the
\* year-0 value of the same result.
C5_NeverAboveReference ==
    fn = "comparison" =>
        /\ {fnRet[i].year : i \in DOMAIN fnRet} = {0, 5, 10, 15, 20, 25, 30}
        /\ \A i \in DOMAIN fnRet : \A n \in scenarioNames :
              fnRet[i].values[n] <= fnRet[1].values[n]

\* C5 witness: a scenario whose estimate plus bonus, taken after the
\* estimator's clamp, exceeds the reference and is cut back to it.
C5_Witness ==
    /\ fn = "comparison"
    /\ \E i \in 2 .. Len(years) :
          LET p == [fnArg EXCEPT !.panel_age = years[i],
                                 !.soiling_ratio = 850,
                                 !.maintenance_count = Min(years[i], 10)]
          IN  /\ predict(p).efficiency + 8 * 700 * years[i]
                     > predict(initialInputs(fnArg)).efficiency
              /\ predict(p).efficiency + 8 * 700 * years[i] > (85 * One) \div 100
              /\ fnRet[i].values["Entretien optimal"] =
                     fnRet[1].values["Entretien optimal"]

\* C6: in the year-30 point, Optimal >= Regular >= Minimal >= No maintenance.
C6_OrderAtYear30 ==
    fn = "comparison" =>
        /\ fnRet[7].year = 30
        /\ fnRet[7].values["Entretien optimal"] >= fnRet[7].values["Entretien regulier"]
        /\ fnRet[7].values["Entretien regulier"] >= fnRet[7].values["Entretien minimal"]
        /\ fnRet[7].values["Entretien minimal"] >= fnRet[7].values["Sans entretien"]

\* C6 witness: a year-30 point in which the ordering is strict somewhere.
C6_Witness ==
    /\ fn = "comparison"
    /\ fnRet[7].values["Entretien regulier"] > fnRet[7].values["Entretien minimal"]
    /\ fnRet[7].values["Entretien minimal"] > fnRet[7].values["Sans entretien"]

----------------------------------------------------------------------------
(* Properties of the gateway (checked under Spec)                          *)

\* The failure messages the interceptor can produce.
FailureMessages == {interceptorMessage(err) : err \in AxiosErrors}

\* C7: a predict call made while apiStatus is 'disconnected' issues no remote
\* request, and what it stores is simulateLocally.predict of the inputs the
\* call was made with: confidence 'simulated', efficiency in [0.10, 0.85].
C7_DisconnectedPredictsLocally ==
    /\ \A c \in calls : c.apiStatus = "disconnected" => ~c.remote
    /\ (last # null /\ last.call.apiStatus = "disconnected") =>
          /\ ~last.call.remote
          /\ last.outcome = "local"
          /\ prediction = predict(last.call.inputs)
          /\ prediction.confidence = "simulated"
          /\ prediction.efficiency >= One \div 10
          /\ 100 * prediction.efficiency <= 85 * One

\* C7 witness: a call made in 'disconnected' mode has stored its result, and
\* the inputs were edited while it was waiting.
C7_Witness ==
    /\ last # null
    /\ last.call.apiStatus = "disconnected"
    /\ last.call.inputs # inputs
    /\ prediction = predict(last.call.inputs)
    /\ prediction # predict(inputs)
    /\ ~isLoading

\* C8: a predict call made in remote mode that fails stores the local
\* estimate of its own inputs, leaves the failure message in `error` (until
\* the next call clears it), and leaves apiStatus 'connected', so that the
\* next call is a remote one again.
C8_RemoteFailureFallsBack ==
    (last # null /\ last.outcome = "failure") =>
        /\ last.call.remote
        /\ prediction = predict(last.call.inputs)
        /\ last.message \in FailureMessages
        /\ (~isLoading => error = [message |-> last.message])
        /\ apiStatus = "connected"
        /\ \A c \in calls : c.remote

\* C8 witness: a remote call failed, and the call made after it is in flight
\* as a remote call.
C8_Witness ==
    /\ last # null
    /\ last.outcome = "failure"
    /\ prediction = predict(last.call.inputs)
    /\ \E c \in calls : c.remote /\ c.id = last.call.id + 1

\* C8 witness of the stored reason: the failed call has ended and its
\* message (here the no-response one: timeout or network error) is shown.
C8_WitnessMessage ==
    /\ last # null
    /\ last.outcome = "failure"
    /\ ~isLoading
    /\ error = [message |->
                    "Le serveur ne repond pas. Il se reveille peut-etre (30s max)..."]

\* C9: a 2xx answer whose body has no numeric efficiency is treated as a
\* failure: what is stored is the local estimate, never the body.
C9_MalformedBodyFallsBack ==
    (last # null /\ last.outcome = "success" /\ ~hasEfficiency(last.body)) =>
        /\ prediction = predict(last.call.inputs)
        /\ prediction.confidence = "simulated"

\* C10 (what a finished call leaves behind): once a predict call has ended,
\* the loading flag is down and a prediction with an efficiency is stored.
C10_FinishedCallHasEstimate ==
    (last # null /\ calls = {}) =>
        /\ ~isLoading
        /\ prediction # null
        /\ hasEfficiency(prediction)

\* C10 (that every call ends): under FairSpec a raised loading flag is
\* eventually lowered, whatever the remote service does.
C10_EveryCallEnds == isLoading ~> ~isLoading

----------------------------------------------------------------------------
(* Further properties of the three functions (checked under FnSpec)        *)

\* The estimator's formula as section 4.1 states it, each decimal coefficient
\* written as a fraction of One (all the divisions are exact).
statedEfficiency(p) ==
    LET sum == (3 * One) \div 10
               + p.irradiance * ((35 * One) \div (100 * 1000))
               + p.soiling_ratio * ((15 * One) \div (100 * 1000))
               - p.panel_age * ((8 * One) \div (100 * 35))
               - Max(0, p.temperature - 25) * ((3 * One) \div (100 * 100))
               - p.humidity * ((2 * One) \div (100 * 100))
               - p.cloud_coverage * ((2 * One) \div (100 * 100))
    IN  Max(One \div 10, Min((85 * One) \div 100, sum))

\* The vector of the worked example of section 8.
exampleVector ==
    [irradiance |-> 500, soiling_ratio |-> 700, panel_age |-> 10,
     temperature |-> 25, humidity |-> 50, cloud_coverage |-> 30,
     maintenance_count |-> 3]

\* C11: predict returns the clamped linear formula, with the label Low below
\* 0.30, Moderate below 0.50, Good below 0.70 and Excellent from there on;
\* the example vector gives 54.1 % and the label Good.
C11_FormulaAndLabel ==
    fn = "predict" =>
        /\ fnRet.efficiency = statedEfficiency(fnArg)
        /\ fnRet.quality_label =
              (IF 100 * fnRet.efficiency < 30 * One THEN "Faible"
               ELSE IF 100 * fnRet.efficiency < 50 * One THEN "Moderee"
               ELSE IF 100 * fnRet.efficiency < 70 * One THEN "Bonne"
               ELSE "Excellente")
        /\ (fnArg = exampleVector =>
              /\ MathRound(fnRet.efficiency * 1000, One) = 541
              /\ fnRet.quality_label = "Bonne")

\* C11 witness: predict was called on the example vector.
C11_Witness ==
    /\ fn = "predict"
    /\ fnArg = exampleVector
    /\ fnRet.efficiency = 378800

\* C11 witness of the four labels: each of them is returned for some vector.
C11_WitnessLabels ==
    /\ fn = "predict"
    /\ fnRet.quality_label = "Excellente"
    /\ \E v \in Vectors : predict(v).quality_label = "Faible"
    /\ \E v \in Vectors : predict(v).quality_label = "Moderee"

----------------------------------------------------------------------------
(* Further properties of the App component (checked under Spec)            *)

\* C12: the health check is issued once, by the mount effect; its success
\* sets apiStatus to 'connected', its failure to 'disconnected'; once
\* apiStatus has left 'checking' no edit and no predict call, failing or
\* not, changes it again.
C12_HealthCheckOnce ==
    /\ [](/\ (health = "idle") = ~mounted
          /\ health \in {"idle", "pending"} => apiStatus = "checking"
          /\ health = "resolved" => apiStatus = "connected"
          /\ health = "rejected" => apiStatus = "disconnected")
    /\ [][/\ health # "idle" => health' \notin {"idle", "pending"} \/ health' = health
          /\ apiStatus # "checking" => apiStatus' = apiStatus]_vars

\* C12 witness: the mode is 'connected', and since then a remote predict call
\* has failed and the inputs have been edited.
C12_Witness ==
    /\ health = "resolved"
    /\ apiStatus = "connected"
    /\ last # null
    /\ last.outcome = "failure"
    /\ nEdits > 0

\* Every parameter vector the sliders of the model can produce.
SliderVectors ==
    {[defaultInputs EXCEPT !.irradiance = a, !.soiling_ratio = b,
                           !.panel_age = c, !.temperature = d] :
        a \in SliderValues.irradiance, b \in SliderValues.soiling_ratio,
        c \in SliderValues.panel_age, d \in SliderValues.temperature}

\* The two derived sequences of every such vector, computed once.
evolutionOf ==
    [v \in SliderVectors |-> generateYearlyEvolution(v, DefaultMaxYears)]

comparisonOf == [v \in SliderVectors |-> generateMaintenanceComparison(v)]

\* C13: once the recomputation scheduled by the latest edit has run, the
\* stored evolution is generateYearlyEvolution(inputs) and the stored
\* comparison generateMaintenanceComparison(inputs); and while it has not
\* run yet the two stored sequences are, as wholes, those of one and the same
\* earlier snapshot.
C13_DerivedFromCurrentInputs ==
    /\ inputs \in SliderVectors
    /\ ~mounted => evolutionData = <<>> /\ maintenanceData = <<>>
    /\ (mounted /\ ~effectDue) =>
          /\ evolutionData = evolutionOf[inputs]
          /\ maintenanceData = comparisonOf[inputs]
    /\ (mounted /\ effectDue) =>
          \E v \in SliderVectors :
              /\ maintenanceData = comparisonOf[v]
              /\ evolutionData = evolutionOf[v]

\* C13 witness: two edits were made, the recomputation of the second has run,
\* and the stored sequences differ from those of the initial inputs.
C13_Witness ==
    /\ mounted
    /\ ~effectDue
    /\ nEdits = 2
    /\ evolutionData = generateYearlyEvolution(inputs, DefaultMaxYears)
    /\ evolutionData # generateYearlyEvolution(defaultInputs, DefaultMaxYears)
    /\ maintenanceData # generateMaintenanceComparison(defaultInputs)

\* C14 as claimed: when the inputs were edited while a predict call was
\* pending, then once no call is pending the stored prediction is the one of
\* the latest inputs, not of the inputs the call was made with.
C14_LatestSnapshotWins ==
    (/\ calls = {}
     /\ last # null
     /\ last.edits > last.call.edits
     /\ nEdits = last.edits) =>
        /\ last.call.inputs = inputs
        /\ last.outcome # "success" => prediction = predict(inputs)

\* C14 as amended: an edit starts no predict call, so once no call is pending
\* the stored prediction is the result of the call issued last, for the
\* inputs that call was made with (its local estimate, or the body answered
\* to its request), whether or not the inputs were edited meanwhile.
C14_LastIssuedCallWins ==
    (calls = {} /\ last # null) =>
        /\ last.call.id = nPredicts
        /\ last.outcome \in {"local", "failure"} =>
              prediction = predict(last.call.inputs)
        /\ last.outcome = "success" => prediction = last.body

\* C14 witness: the inputs were edited while a call was pending; the call
\* has resumed and what is stored is the estimate of the superseded inputs.
C14_Witness ==
    /\ calls = {}
    /\ last # null
    /\ last.outcome = "failure"
    /\ last.edits > last.call.edits
    /\ last.call.inputs # inputs
    /\ prediction = predict(last.call.inputs)
    /\ prediction # predict(inputs)

\* The unrounded efficiency, in percent * 7000, that the record of year
\* `year` of generateYearlyEvolution(fnArg, _) is made from.
yearEfficiency(year) == predict([fnArg EXCEPT !.panel_age = year]).efficiency

\* C15 as claimed: the degradation field of every record equals
\* (E0 - Ey) / E0 * 100 rounded to one decimal, E0 and Ey being the rounded
\* efficiency fields of the records of year 0 and of year y.
C15_DegradationOfRoundedFields ==
    fn = "evolution" =>
        \A i \in 1 .. Len(fnRet) :
            fnRet[i].degradation =
                MathRound((fnRet[1].efficiency - fnRet[i].efficiency) * 1000,
                          fnRet[1].efficiency)

\* C15 as amended: the degradation of year 0 is 0, and the degradation of a
\* later year y is (E0 - ey) / E0 * 100 rounded to one decimal, where E0 is
\* the rounded efficiency field of the record of year 0 and ey is the
\* efficiency of year y in percent BEFORE it is rounded.
C15_DegradationOfUnroundedYear ==
    fn = "evolution" =>
        /\ fnRet[1].degradation = 0
        /\ \A i \in 2 .. Len(fnRet) :
              fnRet[i].degradation =
                  MathRound((700 * fnRet[1].efficiency - yearEfficiency(i - 1)) * 1000,
                            700 * fnRet[1].efficiency)

\* C15 witness: a vector within the declared ranges and a year whose
\* degradation field is not the one the two rounded fields give.
C15_Witness ==
    /\ fn = "evolution"
    /\ inRange(fnArg)
    /\ \E i \in 2 .. Len(fnRet) :
          /\ fnRet[i].degradation > 0
          /\ fnRet[i].degradation #
                MathRound((fnRet[1].efficiency - fnRet[i].efficiency) * 1000,
                          fnRet[1].efficiency)

\* C16 as claimed: the status of a record is "Bon" exactly when its rounded
\* efficiency field is at least 60.0, "Acceptable" exactly when the field is
\* at least 45.0 and below 60.0, and "A remplacer" otherwise.
C16_StatusOfRoundedField ==
    fn = "evolution" =>
        \A i \in 1 .. Len(fnRet) :
            /\ fnRet[i].status = "Bon" <=> fnRet[i].efficiency >= 600
            /\ fnRet[i].status = "Acceptable" <=>
                  (fnRet[i].efficiency >= 450 /\ fnRet[i].efficiency < 600)
            /\ fnRet[i].status = "A remplacer" <=> fnRet[i].efficiency < 450

\* C16 as amended: the thresholds 60 and 45 are compared with the efficiency
\* in percent BEFORE it is rounded to one decimal, so a record whose field
\* reads 60.0 (45.0) from rounding up is still "Acceptable" ("A remplacer").
C16_StatusOfUnroundedEfficiency ==
    fn = "evolution" =>
        \A i \in 1 .. Len(fnRet) :
            /\ fnRet[i].status = "Bon" <=> yearEfficiency(i - 1) >= 60 * 7000
            /\ fnRet[i].status = "Acceptable" <=>
                  /\ yearEfficiency(i - 1) >= 45 * 7000
                  /\ yearEfficiency(i - 1) < 60 * 7000
            /\ fnRet[i].status = "A remplacer" <=> yearEfficiency(i - 1) < 45 * 7000

\* C16 witness: a vector within the declared ranges and a record whose field
\* reads 60.0 or 45.0 while its status is the one below that threshold.
C16_Witness ==
    /\ fn = "evolution"
    /\ inRange(fnArg)
    /\ \E i \in 1 .. Len(fnRet) :
          \/ fnRet[i].efficiency = 600 /\ fnRet[i].status = "Acceptable"
          \/ fnRet[i].efficiency = 450 /\ fnRet[i].status = "A remplacer"

\* C17 as claimed: the table the importance chart draws has exactly six
\* named factors and their values sum to 1.0.
C17_ImportanceSumsToOne ==
    mounted =>
        /\ Len(FEATURE_IMPORTANCE) = 6
        /\ Cardinality({FEATURE_IMPORTANCE[i].name :
                            i \in 1 .. Len(FEATURE_IMPORTANCE)}) = 6
        /\ importanceSum = 1000

\* C17 as amended: the table has exactly six factors with six different
\* names, and their values sum to 0.995.
C17_ImportanceSum ==
    mounted =>
        /\ Len(FEATURE_IMPORTANCE) = 6
        /\ Cardinality({FEATURE_IMPORTANCE[i].name :
                            i \in 1 .. Len(FEATURE_IMPORTANCE)}) = 6
        /\ importanceSum = 995

\* C17 witness: the component is mounted, the chart has its six rows, each
\* of a positive value, and they fall short of one.
C17_Witness ==
    /\ mounted
    /\ Len(FEATURE_IMPORTANCE) = 6
    /\ \A i \in 1 .. Len(FEATURE_IMPORTANCE) : FEATURE_IMPORTANCE[i].value > 0
    /\ importanceSum < 1000

\* C18: for a base vector whose values lie in the declared ranges, the
\* regular and the optimal scenario have, at every sampled year, the value of
\* the year-0 reference (panel_age 0, soiling_ratio 0.85, maintenance_count
\* 0): their bonus outweighs the loss and the cap binds.
C18_RegularAndOptimalStayAtReference ==
    (fn = "comparison" /\ inRange(fnArg)) =>
        \A i \in DOMAIN fnRet :
            \A n \in {"Entretien regulier", "Entretien optimal"} :
                /\ fnRet[i].values[n] =
                      MathRound(predict(initialInputs(fnArg)).efficiency, 700)
                /\ fnRet[i].values[n] = fnRet[1].values[n]

\* C18 witness: an in-range vector for which, at year 30, the two other
\* scenarios have fallen below the reference while the regular and the
\* optimal one, whose estimate alone has dropped, are still at it.
C18_Witness ==
    /\ fn = "comparison"
    /\ inRange(fnArg)
    /\ predict([fnArg EXCEPT !.panel_age = 30, !.soiling_ratio = 760,
                             !.maintenance_count = 10]).efficiency
           < predict(initialInputs(fnArg)).efficiency
    /\ fnRet[7].values["Entretien regulier"] = fnRet[1].values["Entretien regulier"]
    /\ fnRet[7].values["Entretien optimal"] = fnRet[1].values["Entretien optimal"]
    /\ fnRet[7].values["Sans entretien"] < fnRet[1].values["Sans entretien"]
    /\ fnRet[7].values["Entretien minimal"] < fnRet[1].values["Entretien minimal"]

\* C19: a base vector that differs from the argument only in soiling_ratio,
\* panel_age and maintenance_count gives the same comparison, and one that
\* differs only in panel_age gives the same evolution.
C19_IgnoredKeys ==
    /\ fn = "comparison" =>
          \A s \in SoilingArgs, a \in PanelAgeArgs, m \in {0, 3, 10} :
              generateMaintenanceComparison(
                  [fnArg EXCEPT !.soiling_ratio = s, !.panel_age = a,
                                !.maintenance_count = m]) = fnRet
    /\ fn = "evolution" =>
          \A a \in PanelAgeArgs :
              generateYearlyEvolution([fnArg EXCEPT !.panel_age = a], fnYears) = fnRet

\* C19 witness: the comparison and the evolution of a vector that is old and
\* clean equal those of the vector that is new and dirty, although the
\* estimator tells the two vectors apart.
C19_Witness ==
    /\ fn \in {"comparison", "evolution"}
    /\ fnArg.panel_age = 35
    /\ fnArg.soiling_ratio = 1000
    /\ LET other == [fnArg EXCEPT !.soiling_ratio = 300, !.panel_age = 0,
                                  !.maintenance_count = 0]
           young == [fnArg EXCEPT !.panel_age = 0]
       IN  /\ predict(other).efficiency # predict(fnArg).efficiency
           /\ predict(young).efficiency # predict(fnArg).efficiency
           /\ fn = "comparison" => fnRet = generateMaintenanceComparison(other)
           /\ fn = "evolution" =>
                 /\ fnYears = DefaultMaxYears
                 /\ fnRet = generateYearlyEvolution(young, fnYears)

\* C20: a predict call issued while apiStatus is 'checking' runs the local
\* estimator; the call issued at mount is such a call, and what it stores
\* is the local estimate of its inputs, with confidence 'simulated', also
\* when the health check has succeeded meanwhile; and the step that changes
\* apiStatus issues no predict call.
C20_CheckingPredictsLocally ==
    /\ [](/\ \A c \in calls :
                /\ c.apiStatus = "checking" => ~c.remote
                /\ c.id = 1 => c.apiStatus = "checking"
          /\ (last # null /\ last.call.apiStatus = "checking") =>
                last.outcome = "local"
          /\ (last # null /\ last.call.id = 1) =>
                /\ last.call.apiStatus = "checking"
                /\ prediction = predict(last.call.inputs)
                /\ prediction.confidence = "simulated"
                /\ error = null \/ isLoading)
    /\ [][apiStatus' # apiStatus =>
              /\ calls' = calls
              /\ nPredicts' = nPredicts
              /\ prediction' = prediction]_vars

\* C20 witness: the health check succeeded while the call issued at mount was
\* waiting for its timer; that call has resumed, the stored result is the
\* simulated one and no other call has been issued.
C20_Witness ==
    /\ apiStatus = "connected"
    /\ health = "resolved"
    /\ calls = {}
    /\ nPredicts = 1
    /\ last # null
    /\ last.call.id = 1
    /\ last.call.apiStatus = "checking"
    /\ last.outcome = "local"
    /\ prediction # null
    /\ prediction.confidence = "simulated"

\* C21: at most one predict call is pending at any time, and it is the one
\* issued last; isLoading is true exactly while a call is pending; no call
\* is issued while isLoading is true; and every step that writes the stored
\* prediction is the resumption of the only pending call, after which none
\* is pending.
C21_OnePredictInFlight ==
    /\ [](/\ Cardinality(calls) <= 1
          /\ isLoading <=> calls # {}
          /\ \A c \in calls : c.id = nPredicts)
    /\ [][/\ isLoading => nPredicts' = nPredicts /\ calls' \subseteq calls
          /\ nPredicts' # nPredicts =>
                /\ ~isLoading
                /\ isLoading'
                /\ Cardinality(calls') = 1
          /\ prediction' # prediction =>
                /\ Cardinality(calls) = 1
                /\ calls' = {}
                /\ ~isLoading']_vars

\* C21 witness: a second call, sent to the remote service, is pending alone
\* after the first one has resumed and the inputs were edited; the flag is
\* set.
C21_Witness ==
    /\ isLoading
    /\ nPredicts = 2
    /\ nEdits > 0
    /\ last # null
    /\ last.call.id = 1
    /\ Cardinality(calls) = 1
    /\ \E c \in calls : c.id = 2 /\ c.remote

=============================================================================
